---- MODULE Spec2Model ----
(***************************************************************************)
(* Model of pytube/api.py: the YouTube object, its page resolution         *)
(* (from_url / _get_video_info), the JSON boundary scan, the stream map    *)
(* decoder, the signature decipher step and the get / filter lookups.      *)
(*                                                                         *)
(* Text is modelled as a sequence of tokens.  A page body is a sequence of *)
(* characters (the marker "ytplayer.config = " is its 18 characters); a    *)
(* stream map, a url and a player script are sequences of lexical tokens   *)
(* in which the separators "," "&" "=" and the escapes "%3D" "%26" "%3F"   *)
(* are tokens of their own.  Python exceptions are modelled as the name of *)
(* the exception in a field `raised`; "none" means normal completion.      *)
(***************************************************************************)
EXTENDS Integers, Sequences, FiniteSets, TLC

VARIABLES
    _video_url,   \* self._video_url: the page the transport serves for the url
    _filename,    \* self._filename ("None" when unset)
    _fmt_values,  \* self._fmt_values
    _js_code,     \* self._js_code (<<>> is the falsy initial value False)
    title,        \* self.title
    videos,       \* self.videos
    raised,       \* exception that ended the last call ("none" if it returned)
    calls,        \* the stream_map["s"][i] reads and _get_cipher calls of the last from_url
    ret,          \* what the last get / filter call returned
    body,         \* argument of a stand-alone _get_json_data call
    json_text,    \* the text _get_json_data handed to json.loads
    text,         \* argument of a stand-alone _parse_stream_map call
    videoinfo     \* what that _parse_stream_map call produced

vars == <<_video_url, _filename, _fmt_values, _js_code, title, videos, raised,
          calls, ret, body, json_text, text, videoinfo>>

\* ------------------------------------------------------------------ bounds
MaxStreams == 2      \* records per stream map
MaxFmtValues == 2    \* from_url is no longer called once _fmt_values is this long
MaxPad == 17         \* characters in front of the marker / the scanned text
MaxTail == 4         \* characters after the marker
MaxTextLen == 5      \* tokens of a stand-alone stream map text

\* --------------------------------------------------------- generic helpers
RECURSIVE Repeat(_, _)
Repeat(c, n) == IF n = 0 THEN <<>> ELSE <<c>> \o Repeat(c, n - 1)

\* all sequences over S of length at most n
RECURSIVE SeqsUpTo(_, _)
SeqsUpTo(S, n) ==
    IF n = 0 THEN {<<>>}
    ELSE LET shorter == SeqsUpTo(S, n - 1)
         IN  shorter \cup {Append(s, c) : s \in shorter, c \in S}

\* s[k:] of Python, k >= 0
DropFirst(s, k) == IF k >= Len(s) THEN <<>> ELSE SubSeq(s, k + 1, Len(s))

\* str.find: the lowest 0-based index at which sub occurs in s, -1 if none
Find(s, sub) ==
    LET hits == {k \in 0..(Len(s) - Len(sub)) : SubSeq(s, k + 1, k + Len(sub)) = sub}
    IN  IF hits = {} THEN -1 ELSE CHOOSE k \in hits : \A h \in hits : k <= h

\* `sub in s`
Contains(s, sub) == Find(s, sub) # -1

\* str.split(sep) for a one-token separator: the parts between consecutive
\* occurrences of sep; there is always at least one part
Split(s, sep) ==
    LET at     == {k \in 1..Len(s) : s[k] = sep}
        n      == Cardinality(at)
        cut(j) == IF j = 0 THEN 0
                  ELSE IF j > n THEN Len(s) + 1
                  ELSE CHOOSE k \in at : Cardinality({h \in at : h < k}) = j - 1
    IN  [j \in 1..(n + 1) |-> SubSeq(s, cut(j - 1) + 1, cut(j) - 1)]

\* ------------------------------------------------------ JSON boundary scan
Marker == <<"y","t","p","l","a","y","e","r",".","c","o","n","f","i","g"," ","="," ">>

\* _find_json_offset: the for loop from 1-based position k with the running
\* bracket_count; -1 stands for None (the for-else), otherwise index + i.
RECURSIVE ScanBrackets(_, _, _)
ScanBrackets(b, k, bracket_count) ==
    IF k > Len(b) THEN -1
    ELSE IF b[k] = "{" THEN ScanBrackets(b, k + 1, bracket_count + 1)
    ELSE IF b[k] = "}" THEN
            IF bracket_count - 1 = 0 THEN 1 + (k - 1)
            ELSE ScanBrackets(b, k + 1, bracket_count - 1)
    ELSE ScanBrackets(b, k + 1, bracket_count)

\* the scan without the for-else: an exhausted loop falls through to
\* `return index + i` with i the last index
ScanNoElse(b) ==
    LET r == ScanBrackets(b, 1, 0)
    IN  IF r = -1 THEN Len(b) ELSE r

_find_json_offset(b) == ScanBrackets(b, 1, 0)

\* _get_json_data up to the json.loads call: [found |-> FALSE] is `return None`,
\* otherwise `text` is body[:offset], the argument of json.loads.
JsonText(b) ==
    LET start  == Find(b, Marker) + 18
        rest   == DropFirst(b, start)
        offset == _find_json_offset(rest)
    IN  IF offset = -1 \/ offset = 0
        THEN [found |-> FALSE, text |-> <<>>]
        ELSE [found |-> TRUE, text |-> SubSeq(rest, 1, offset)]

\* json.loads on a page: the text "{c}" is the page's configuration object
\* (c stands for its content); any other text is not valid JSON.
ConfigText == <<"{", "c", "}">>

_get_json_data(page) ==
    LET jt == JsonText(page.body)
    IN  IF ~jt.found THEN [raised |-> "none", found |-> FALSE, data |-> page.config]
        ELSE IF jt.text = ConfigText
             THEN [raised |-> "none", found |-> TRUE, data |-> page.config]
             ELSE [raised |-> "ValueError", found |-> FALSE, data |-> page.config]

\* ------------------------------------------------------- stream map decoder
Keys == {"itag", "url", "quality", "fallback_host", "s", "type"}

EmptyInfo == [k \in Keys |-> <<>>]

\* urllib unquote, token by token
unquote(value) ==
    [j \in 1..Len(value) |->
        CASE value[j] = "%3D" -> "="
          [] value[j] = "%26" -> "&"
          [] value[j] = "%3F" -> "?"
          [] value[j] = "%2C" -> ","
          [] OTHER -> value[j]]

\* `kv.split("=")`
SplitPair(kv) == Split(kv, "=")

\* the two nested for loops of _parse_stream_map over the list of all pairs;
\* `key, value = ...` raises ValueError unless the split has exactly two parts
RECURSIVE ParsePairs(_, _, _)
ParsePairs(pairs, k, info) ==
    IF k > Len(pairs) THEN [raised |-> "none", info |-> info]
    ELSE LET parts == SplitPair(pairs[k])
         IN  IF Len(parts) # 2 THEN [raised |-> "ValueError", info |-> EmptyInfo]
             ELSE LET key   == parts[1]
                      value == parts[2]
                  IN  IF Len(key) = 1 /\ key[1] \in Keys
                      THEN ParsePairs(pairs, k + 1,
                               [info EXCEPT ![key[1]] = Append(@, unquote(value))])
                      ELSE ParsePairs(pairs, k + 1, info)

RECURSIVE Flatten(_)
Flatten(ss) == IF ss = <<>> THEN <<>> ELSE Head(ss) \o Flatten(Tail(ss))

_parse_stream_map(t) ==
    LET recs  == Split(t, ",")
        split == [j \in 1..Len(recs) |-> Split(recs[j], "&")]
    IN  ParsePairs(Flatten(split), 1, EmptyInfo)

\* ---------------------------------------------------------- format catalog
YT_ENCODING ==
    (5   :> <<"flv", "240p", "Sorenson H.263", "N/A", "0.25", "MP3", "64">>) @@
    (6   :> <<"flv", "270p", "Sorenson H.263", "N/A", "0.8", "MP3", "64">>) @@
    (34  :> <<"flv", "360p", "H.264", "Main", "0.5", "AAC", "128">>) @@
    (35  :> <<"flv", "480p", "H.264", "Main", "0.8-1", "AAC", "128">>) @@
    (36  :> <<"3gp", "240p", "MPEG-4 Visual", "Simple", "0.17", "AAC", "38">>) @@
    (13  :> <<"3gp", "N/A", "MPEG-4 Visual", "N/A", "0.5", "AAC", "N/A">>) @@
    (17  :> <<"3gp", "144p", "MPEG-4 Visual", "Simple", "0.05", "AAC", "24">>) @@
    (18  :> <<"mp4", "360p", "H.264", "Baseline", "0.5", "AAC", "96">>) @@
    (22  :> <<"mp4", "720p", "H.264", "High", "2-2.9", "AAC", "192">>) @@
    (37  :> <<"mp4", "1080p", "H.264", "High", "3-4.3", "AAC", "192">>) @@
    (38  :> <<"mp4", "3072p", "H.264", "High", "3.5-5", "AAC", "192">>) @@
    (82  :> <<"mp4", "360p", "H.264", "3D", "0.5", "AAC", "96">>) @@
    (83  :> <<"mp4", "240p", "H.264", "3D", "0.5", "AAC", "96">>) @@
    (84  :> <<"mp4", "720p", "H.264", "3D", "2-2.9", "AAC", "152">>) @@
    (85  :> <<"mp4", "1080p", "H.264", "3D", "2-2.9", "AAC", "152">>) @@
    (43  :> <<"webm", "360p", "VP8", "N/A", "0.5", "Vorbis", "128">>) @@
    (44  :> <<"webm", "480p", "VP8", "N/A", "1", "Vorbis", "128">>) @@
    (45  :> <<"webm", "720p", "VP8", "N/A", "2", "Vorbis", "192">>) @@
    (46  :> <<"webm", "1080p", "VP8", "N/A", "N/A", "Vorbis", "192">>) @@
    (100 :> <<"webm", "360p", "VP8", "3D", "N/A", "Vorbis", "128">>) @@
    (101 :> <<"webm", "360p", "VP8", "3D", "N/A", "Vorbis", "192">>) @@
    (102 :> <<"webm", "720p", "VP8", "3D", "N/A", "Vorbis", "192">>)

YT_ENCODING_KEYS ==
    <<"extension", "resolution", "video_codec", "profile", "video_bitrate",
      "audio_codec", "audio_bitrate">>

\* int() of the digit tokens that occur in the modelled urls
IntOf == ("18" :> 18) @@ ("22" :> 22) @@ ("43" :> 43) @@ ("999" :> 999)

\* dict(zip(YT_ENCODING_KEYS, attr))
ZipKeys(attr) ==
    [k \in {YT_ENCODING_KEYS[j] : j \in 1..Len(YT_ENCODING_KEYS)} |->
        attr[CHOOSE j \in 1..Len(YT_ENCODING_KEYS) : YT_ENCODING_KEYS[j] = k]]

NoFmtData == ZipKeys(<<"None", "None", "None", "None", "None", "None", "None">>)

\* re.findall('itag=(\d+)', text): the positions of the captured numbers
ItagMatches(t) ==
    {j \in 3..Len(t) : t[j - 2] = "itag" /\ t[j - 1] = "=" /\ t[j] \in DOMAIN IntOf}

\* _extract_fmt: isNone is the implicit `return None`; hasData is FALSE for
\* `return itag, None`
_extract_fmt(t) ==
    LET m == ItagMatches(t)
    IN  IF m # {} /\ Cardinality(m) = 1
        THEN LET itag == IntOf[t[CHOOSE j \in m : TRUE]]
             IN  IF itag \in DOMAIN YT_ENCODING
                 THEN [isNone |-> FALSE, fmt |-> itag, hasData |-> TRUE,
                       fmt_data |-> ZipKeys(YT_ENCODING[itag])]
                 ELSE [isNone |-> FALSE, fmt |-> itag, hasData |-> FALSE,
                       fmt_data |-> NoFmtData]
        ELSE [isNone |-> TRUE, fmt |-> 0, hasData |-> FALSE, fmt_data |-> NoFmtData]

\* ------------------------------------------------------------ player script
\* A player script is a token sequence: the dispatch expression is the three
\* tokens ".sig||" NAME "(", a function definition is "function" NAME followed
\* by its operations up to ";".
Names == {"fa", "fz"}

ScriptA == <<".sig||", "fa", "(", "function", "fa", "reverse", "drop1", ";">>
ScriptC == <<"function", "fa", "reverse", ";">>
ScriptD == <<".sig||", "fz", "(", "function", "fa", "reverse", ";">>

JsAssets == {"//s/a.js", "//s/c.js", "//s/d.js"}

\* "http:{}".format(json_data["assets"]["js"])
JsUrl(js) == <<"http:", js>>

\* urlopen(url).read().decode() for a player-script url
urlopen(url) ==
    CASE url[2] = "//s/a.js" -> ScriptA
      [] url[2] = "//s/c.js" -> ScriptC
      [] OTHER -> ScriptD

\* re.search(r'\.sig\|\|([a-zA-Z0-9$]+)\(', code): position of the first match, 0 if none
Locate(code) ==
    LET hits == {j \in 1..(Len(code) - 2) :
                    code[j] = ".sig||" /\ code[j + 1] \in Names /\ code[j + 2] = "("}
    IN  IF hits = {} THEN 0 ELSE CHOOSE j \in hits : \A h \in hits : j <= h

\* a locator that falls back to a fixed name when the pattern has no match
FuncnameGuess(code) == IF Locate(code) = 0 THEN "fa" ELSE code[Locate(code) + 1]

\* the local variable funcname after the `if mobj:` block; "" is unbound
Funcname(code) == IF Locate(code) = 0 THEN "" ELSE code[Locate(code) + 1]

Ops == {"reverse", "swap1", "swap2", "drop1", "drop2"}
OpArg == ("reverse" :> 0) @@ ("swap1" :> 1) @@ ("swap2" :> 2) @@ ("drop1" :> 1) @@ ("drop2" :> 2)

Reverse(s) == [j \in 1..Len(s) |-> s[Len(s) + 1 - j]]

\* one primitive of the cipher program applied to a signature
ApplyOp(op, s) ==
    IF op = "reverse" THEN Reverse(s)
    ELSE IF op \in {"swap1", "swap2"} THEN
        IF s = <<>> THEN s
        ELSE LET n == (OpArg[op] % Len(s)) + 1
             IN  [j \in 1..Len(s) |-> IF j = 1 THEN s[n] ELSE IF j = n THEN s[1] ELSE s[j]]
    ELSE DropFirst(s, OpArg[op])

RECURSIVE ApplyProgram(_, _)
ApplyProgram(prog, s) ==
    IF prog = <<>> THEN s ELSE ApplyProgram(Tail(prog), ApplyOp(Head(prog), s))

\* JSInterpreter(code).extract_function(funcname): the operations between
\* "function" funcname and the next ";"; ok is FALSE when it raises
extract_function(code, funcname) ==
    LET at == Find(code, <<"function", funcname>>)
    IN  IF funcname = "" \/ at = -1 THEN [ok |-> FALSE, prog |-> <<>>]
        ELSE LET rest == DropFirst(code, at + 2)
                 end  == Find(rest, <<";">>)
                 prog == IF end = -1 THEN rest ELSE SubSeq(rest, 1, end)
             IN  IF end = -1 \/ \E j \in 1..Len(prog) : prog[j] \notin Ops
                 THEN [ok |-> FALSE, prog |-> <<>>]
                 ELSE [ok |-> TRUE, prog |-> prog]

\* _get_cipher: fetches the script when self._js_code is falsy, then locates,
\* compiles and runs the function; every exception of the try block becomes
\* CipherError.
_get_cipher(js_code, signature, url) ==
    LET code     == IF js_code = <<>> THEN urlopen(url) ELSE js_code
        funcname == Funcname(code)
        fn       == extract_function(code, funcname)
    IN  IF fn.ok
        THEN [_js_code |-> code, raised |-> "none", funcname |-> funcname,
              signature |-> ApplyProgram(fn.prog, signature)]
        ELSE [_js_code |-> code, raised |-> "CipherError", funcname |-> funcname,
              signature |-> <<>>]

\* ------------------------------------------------------------------ videos
\* models.Video(url, filename, **fmt_data): the attributes the callers read
Video(url, filename, fmt_data) == [url |-> url, filename |-> filename] @@ fmt_data

\* utils.safe_filename on the modelled titles
safe_filename(t) == IF t = "a/b" THEN "ab" ELSE t

\* the filename property: generated from the title when self._filename is unset
FilenameProperty(fname, ttl) == IF fname \in {"None", ""} THEN safe_filename(ttl) ELSE fname

Height ==
    ("N/A" :> 0) @@ ("144p" :> 144) @@ ("240p" :> 240) @@ ("270p" :> 270) @@
    ("360p" :> 360) @@ ("480p" :> 480) @@ ("720p" :> 720) @@ ("1080p" :> 1080) @@
    ("3072p" :> 3072)

ExtPriority == ("mp4" :> 0) @@ ("webm" :> 1) @@ ("flv" :> 2) @@ ("3gp" :> 3)

\* the order of Video objects: resolution descending, then extension priority
VideoLess(a, b) ==
    \/ Height[a.resolution] > Height[b.resolution]
    \/ /\ Height[a.resolution] = Height[b.resolution]
       /\ ExtPriority[a.extension] < ExtPriority[b.extension]

\* list.sort(): stable
RECURSIVE SortVideos(_)
SortVideos(vs) ==
    IF vs = <<>> THEN <<>>
    ELSE LET front == SortVideos(SubSeq(vs, 1, Len(vs) - 1))
             v     == vs[Len(vs)]
             later == {j \in 1..Len(front) : VideoLess(v, front[j])}
             at    == IF later = {} THEN Len(front) + 1
                      ELSE CHOOSE j \in later : \A h \in later : j <= h
         IN  SubSeq(front, 1, at - 1) \o <<v>> \o SubSeq(front, at, Len(front))

\* ---------------------------------------------------------- _get_video_info
AgeTag == "og:restrictions:age"

\* one entry of `calls`: the read of stream_map["s"][pos] (read is FALSE when
\* it raised IndexError) and the _get_cipher call made with it
CallEntry(pos, read, s, url, c) ==
    [pos |-> pos, read |-> read, s |-> s, url |-> url, code |-> c._js_code,
     funcname |-> c.funcname, raised |-> c.raised, signature |-> c.signature]

NoCall == [_js_code |-> <<>>, raised |-> "none", funcname |-> "", signature |-> <<>>]

\* the for loop of _get_video_info from position i (1-based), then the sort;
\* self is the record of the instance attributes
RECURSIVE StreamLoop(_, _, _, _)
StreamLoop(self, i, stream_map, js_url) ==
    IF i > Len(stream_map["url"])
    THEN [self EXCEPT !.videos = SortVideos(@)]
    ELSE
      LET url == stream_map["url"][i]
          ef  == _extract_fmt(url)
      IN
      IF ef.isNone THEN StreamLoop(self, i + 1, stream_map, js_url)
      ELSE IF Contains(url, <<"signature", "=">>) THEN
          LET fname == FilenameProperty(self._filename, self.title)
          IN  IF ~ef.hasData
              THEN [self EXCEPT !._filename = fname, !.raised = "TypeError"]
              ELSE StreamLoop(
                     [self EXCEPT !._filename = fname,
                                  !.videos = Append(@, Video(url, fname, ef.fmt_data)),
                                  !._fmt_values = Append(@, ef.fmt)],
                     i + 1, stream_map, js_url)
      ELSE IF i > Len(stream_map["s"]) THEN
          [self EXCEPT !.raised = "IndexError",
                       !.calls = Append(@, CallEntry(i, FALSE, <<>>, js_url, NoCall))]
      ELSE
          LET s      == stream_map["s"][i]
              c      == _get_cipher(self._js_code, s, js_url)
              logged == [self EXCEPT !._js_code = c._js_code,
                                     !.calls = Append(@, CallEntry(i, TRUE, s, js_url, c))]
              fname  == FilenameProperty(self._filename, self.title)
              signed == url \o <<"&", "signature", "=">> \o c.signature
          IN  IF c.raised # "none" THEN [logged EXCEPT !.raised = c.raised]
              ELSE IF ~ef.hasData
              THEN [logged EXCEPT !._filename = fname, !.raised = "TypeError"]
              ELSE StreamLoop(
                     [logged EXCEPT !._filename = fname,
                                    !.videos = Append(@, Video(signed, fname, ef.fmt_data)),
                                    !._fmt_values = Append(@, ef.fmt)],
                     i + 1, stream_map, js_url)

\* _get_video_info after the two resets at its top: the fetch, the age check,
\* the JSON extraction, the stream map and the loop
ResolvePage(self, page) ==
    LET jd == _get_json_data(page)
        sm == _parse_stream_map(jd.data.map)
    IN  IF Contains(page.body, <<AgeTag>>) THEN [self EXCEPT !.raised = "YouTubeError"]
        ELSE IF jd.raised # "none" THEN [self EXCEPT !.raised = jd.raised]
        ELSE IF ~jd.found THEN [self EXCEPT !.raised = "YouTubeError"]
        ELSE IF sm.raised # "none" THEN [self EXCEPT !.raised = sm.raised]
        ELSE StreamLoop([self EXCEPT !.title = jd.data.title], 1, sm.info,
                        JsUrl(jd.data.js))

\* _get_video_info without `self.videos = []`
KeepVideos(self0, page) ==
    ResolvePage([self0 EXCEPT !.title = "None", !.raised = "none", !.calls = <<>>], page)

_get_video_info(self0, page) ==
    ResolvePage([self0 EXCEPT !.title = "None", !.videos = <<>>, !.raised = "none",
                              !.calls = <<>>], page)

\* ------------------------------------------------------------ get / filter
Truthy(x) == x \notin {"None", ""}

\* the chain without its profile branch
SelectedNoProfile(v, extension, resolution, profile) ==
    IF Truthy(extension) /\ v.extension # extension THEN FALSE
    ELSE IF Truthy(resolution) /\ v.resolution # resolution THEN FALSE
    ELSE TRUE

\* the if / elif / else chain in the loops of get and filter
Selected(v, extension, resolution, profile) ==
    IF Truthy(extension) /\ v.extension # extension THEN FALSE
    ELSE IF Truthy(resolution) /\ v.resolution # resolution THEN FALSE
    ELSE IF Truthy(profile) /\ v.profile # profile THEN FALSE
    ELSE TRUE

RECURSIVE Collect(_, _, _, _)
Collect(vs, extension, resolution, profile) ==
    IF vs = <<>> THEN <<>>
    ELSE (IF Selected(Head(vs), extension, resolution, profile) THEN <<Head(vs)>> ELSE <<>>)
         \o Collect(Tail(vs), extension, resolution, profile)

NoRet == [op |-> "none", args |-> <<"None", "None", "None">>, raised |-> "none",
          kind |-> "None", val |-> <<>>]

\* a get that settles for the first of several matches
getFirst(vs, extension, resolution, profile) ==
    LET result == Collect(vs, extension, resolution, profile)
        r      == [NoRet EXCEPT !.op = "get", !.args = <<extension, resolution, profile>>]
    IN  IF Len(result) = 0 THEN r
        ELSE [r EXCEPT !.kind = "video", !.val = <<result[1]>>]

get(vs, extension, resolution, profile) ==
    LET result == Collect(vs, extension, resolution, profile)
        r      == [NoRet EXCEPT !.op = "get", !.args = <<extension, resolution, profile>>]
    IN  IF Len(result) = 0 THEN r
        ELSE IF Len(result) = 1 THEN [r EXCEPT !.kind = "video", !.val = <<result[1]>>]
        ELSE [r EXCEPT !.raised = "MultipleObjectsReturned"]

filter(vs, extension, resolution, profile) ==
    [NoRet EXCEPT !.op = "filter", !.args = <<extension, resolution, profile>>,
                  !.kind = "list",
                  !.val = Collect(vs, extension, resolution, profile)]

\* ------------------------------------------------------------------ inputs
Titles == {"a/b"}

\* the scrambled signature carried by the record at position n
Scrambled == << <<"a", "b", "c">>, <<"d", "e", "f">>, <<"g", "h", "i">>,
                <<"j", "k", "l">>, <<"m", "n", "o">> >>

UrlBase == <<"u1", "u2", "u3", "u4", "u5">>

\* the kinds of stream record a page carries: format identifier ("" when the
\* url has none), whether the url already has a signature (a record whose url
\* is signed has no s key, an unsigned one carries its scrambled signature)
RecordKinds ==
    { [itag |-> "22",  signed |-> TRUE],
      [itag |-> "43",  signed |-> FALSE],
      [itag |-> "999", signed |-> TRUE],
      [itag |-> "",    signed |-> TRUE] }

\* the url_encoded_fmt_stream_map text of record r at position n
EncodeRecord(r, n) ==
    <<"url", "=", UrlBase[n], "%3F">>
    \o (IF r.itag # "" THEN <<"itag", "%3D", r.itag>> ELSE <<>>)
    \o (IF r.signed THEN <<"%26", "signature", "%3D", "g">>
                    ELSE <<"&", "s", "=">> \o Scrambled[n])

RECURSIVE EncodeFrom(_, _)
EncodeFrom(rs, n) ==
    IF n > Len(rs) THEN <<>>
    ELSE EncodeRecord(rs[n], n) \o (IF n < Len(rs) THEN <<",">> ELSE <<>>)
         \o EncodeFrom(rs, n + 1)

Encode(rs) == EncodeFrom(rs, 1)

StreamLists == SeqsUpTo(RecordKinds, MaxStreams)

Configs == {[title |-> t, streams |-> rs, map |-> Encode(rs), js |-> js] :
               t \in Titles, rs \in StreamLists, js \in JsAssets}

GoodBody       == <<"x">> \o Marker \o ConfigText \o <<"x", "}">>
TruncatedBody  == Marker \o <<"{", "c">>
RestrictedBody == <<AgeTag>> \o GoodBody
NoMarkerBody   == Repeat("x", 17) \o ConfigText

OneStream == [title |-> "a/b", streams |-> <<[itag |-> "22", signed |-> TRUE]>>,
              map |-> Encode(<<[itag |-> "22", signed |-> TRUE]>>),
              js |-> "//s/a.js"]

Pages ==
    {[body |-> GoodBody, config |-> c] : c \in Configs} \cup
    {[body |-> b, config |-> OneStream] : b \in {TruncatedBody, RestrictedBody, NoMarkerBody}}

FilterValues == [extension  : {"None", "mp4", "webm"},
                 resolution : {"None", "720p", "360p"},
                 profile    : {"None", "High", "N/A"}]

\* ------------------------------------------------------------ state machine
NoUrl == [body |-> <<>>]

NoJson == [done |-> FALSE, found |-> FALSE, text |-> <<>>]
NoInfo == [done |-> FALSE, raised |-> "none", info |-> EmptyInfo]

\* YouTube.__init__
Construct ==
    /\ _video_url = NoUrl
    /\ _filename = "None"
    /\ _fmt_values = <<>>
    /\ _js_code = <<>>
    /\ title = "None"
    /\ videos = <<>>
    /\ raised = "none"
    /\ calls = <<>>
    /\ ret = NoRet

Init ==
    /\ Construct
    /\ body = <<>>
    /\ json_text = NoJson
    /\ text = <<>>
    /\ videoinfo = NoInfo

\* from_url(url), where the transport serves `page` for url
from_url(page) ==
    \E r \in {_get_video_info(
                 [_filename |-> "None", _fmt_values |-> _fmt_values,
                  _js_code |-> _js_code, title |-> title, videos |-> videos,
                  raised |-> "none", calls |-> <<>>], page)} :
        /\ _video_url' = page
        /\ _filename' = r._filename
        /\ _fmt_values' = r._fmt_values
        /\ _js_code' = r._js_code
        /\ title' = r.title
        /\ videos' = r.videos
        /\ raised' = r.raised
        /\ calls' = r.calls
        /\ ret' = NoRet
        /\ UNCHANGED <<body, json_text, text, videoinfo>>

FromUrl ==
    /\ Len(_fmt_values) < MaxFmtValues
    /\ \E page \in Pages : from_url(page)

AttributeError(op, f) ==
    [NoRet EXCEPT !.op = op, !.args = <<f.extension, f.resolution, f.profile>>,
                  !.raised = "AttributeError"]

\* get(extension, resolution, profile); self.videos exists once from_url ran
Get ==
    /\ \E f \in FilterValues :
          ret' = IF _video_url = NoUrl THEN AttributeError("get", f)
                 ELSE get(videos, f.extension, f.resolution, f.profile)
    /\ UNCHANGED <<_video_url, _filename, _fmt_values, _js_code, title, videos,
                   raised, calls, body, json_text, text, videoinfo>>

\* filter(extension, resolution, profile)
Filter ==
    /\ \E f \in FilterValues :
          ret' = IF _video_url = NoUrl THEN AttributeError("filter", f)
                 ELSE filter(videos, f.extension, f.resolution, f.profile)
    /\ UNCHANGED <<_video_url, _filename, _fmt_values, _js_code, title, videos,
                   raised, calls, body, json_text, text, videoinfo>>

Next == FromUrl

Spec == Init /\ [][Next]_vars

\* ---- one resolution followed by any number of lookups
FirstFromUrl ==
    /\ _video_url = NoUrl
    /\ \E page \in Pages : from_url(page)

NextQuery == FirstFromUrl \/ Get \/ Filter

SpecQuery == Init /\ [][NextQuery]_vars

\* ---- a stand-alone _get_json_data call on an arbitrary body
BraceChars == {"{", "}", "c"}

Bodies ==
    {Repeat("x", k) \o m \o t :
        k \in 0..MaxPad, m \in {<<>>, Marker}, t \in SeqsUpTo(BraceChars, MaxTail)}

InitJson ==
    /\ Construct
    /\ body \in Bodies
    /\ json_text = NoJson
    /\ text = <<>>
    /\ videoinfo = NoInfo

ExtractJson ==
    /\ ~json_text.done
    /\ json_text' = [done |-> TRUE, found |-> JsonText(body).found,
                     text |-> JsonText(body).text]
    /\ UNCHANGED <<_video_url, _filename, _fmt_values, _js_code, title, videos,
                   raised, calls, ret, body, text, videoinfo>>

NextJson == ExtractJson

SpecJson == InitJson /\ [][NextJson]_vars

\* ---- a stand-alone _parse_stream_map call on an arbitrary text
MapTokens == {"s", "q", "=", "&", ",", "%3D"}

InitParse ==
    /\ Construct
    /\ body = <<>>
    /\ json_text = NoJson
    /\ text \in SeqsUpTo(MapTokens, MaxTextLen)
    /\ videoinfo = NoInfo

ParseStreamMap ==
    /\ ~videoinfo.done
    /\ videoinfo' = [done |-> TRUE, raised |-> _parse_stream_map(text).raised,
                     info |-> _parse_stream_map(text).info]
    /\ UNCHANGED <<_video_url, _filename, _fmt_values, _js_code, title, videos,
                   raised, calls, ret, body, json_text, text>>

NextParse == ParseStreamMap

SpecParse == InitParse /\ [][NextParse]_vars

\* =================================================================== claims
\* ---- helpers of the statements
\* brace depth of s after its first k characters
Depth(s, k) ==
    Cardinality({j \in 1..k : s[j] = "{"}) - Cardinality({j \in 1..k : s[j] = "}"})

\* f runs from an opening brace to the closing brace that matches it
Balanced(f) ==
    /\ Len(f) >= 2
    /\ f[1] = "{"
    /\ f[Len(f)] = "}"
    /\ Depth(f, Len(f)) = 0
    /\ \A j \in 1..(Len(f) - 1) : Depth(f, j) > 0

HasMarker(b) == \E k \in 1..(Len(b) - 17) : SubSeq(b, k, k + 17) = Marker

\* the text that follows the marker
AfterMarker(b) ==
    LET k == CHOOSE k \in 1..(Len(b) - 17) : SubSeq(b, k, k + 17) = Marker
    IN  SubSeq(b, k + 18, Len(b))

\* C2: when a balanced-brace fragment follows the marker, the extractor
\* isolates exactly that fragment, from its opening brace to the matching
\* closing brace; when the brace depth of the text after the marker never
\* returns to zero, the extraction fails and yields no string.
C2_ExtractsExactFragment ==
    (json_text.done /\ HasMarker(body)) =>
        LET after == AfterMarker(body)
        IN  /\ \A k \in 1..Len(after) :
                  Balanced(SubSeq(after, 1, k)) =>
                      (json_text.found /\ json_text.text = SubSeq(after, 1, k))
            /\ (\A k \in 1..Len(after) : Depth(after, k) # 0) =>
                  (~json_text.found /\ json_text.text = <<>>)

\* a fragment with text before the marker and after its closing brace was isolated
C2_Witness ==
    /\ json_text.done
    /\ HasMarker(body)
    /\ body[1] = "x"
    /\ AfterMarker(body) = <<"{", "c", "}", "}">>
    /\ json_text.found
    /\ json_text.text = <<"{", "c", "}">>

\* C6: when the marker is absent from the body, the extraction fails; no part
\* of the body is scanned and returned.
C6_NoMarkerFails ==
    (json_text.done /\ ~HasMarker(body)) => ~json_text.found

\* ---- stream map decoder
\* the key=value pairs of a stream map text, in order
PairsOf(t) ==
    LET recs == Split(t, ",")
    IN  Flatten([j \in 1..Len(recs) |-> Split(recs[j], "&")])

\* the same pair split on its first "=" only
SplitPairFirst(kv) ==
    LET k == Find(kv, <<"=">>)
    IN  IF k = -1 THEN <<kv>> ELSE <<SubSeq(kv, 1, k), DropFirst(kv, k + 1)>>

EqCount(kv) == Cardinality({j \in 1..Len(kv) : kv[j] = "="})

\* the values a decoder that splits on the first "=" collects for key
FirstEqValues(t, key) ==
    LET mine == SelectSeq(PairsOf(t), LAMBDA kv : SplitPairFirst(kv)[1] = <<key>>)
    IN  [j \in 1..Len(mine) |-> unquote(SplitPairFirst(mine[j])[2])]

\* C5: each pair is split on its first "=" only: when every pair of the text
\* has a key followed by "=" and some pair has more than one "=", decoding
\* does not fail, the key is the text before the first "=" and the value the
\* percent-decoded rest.
C5_SplitsOnFirstEq ==
    (/\ videoinfo.done
     /\ \A j \in 1..Len(PairsOf(text)) :
           EqCount(PairsOf(text)[j]) >= 1 /\ PairsOf(text)[j][1] # "="
     /\ \E j \in 1..Len(PairsOf(text)) : EqCount(PairsOf(text)[j]) > 1)
    => /\ videoinfo.raised = "none"
       /\ \A key \in Keys : videoinfo.info[key] = FirstEqValues(text, key)

\* ---- resolution
Resolved == _video_url # NoUrl

\* the records of the page being resolved, by position
Streams == _video_url.config.streams

KnownFormat(r) == r.itag # "" /\ IntOf[r.itag] \in DOMAIN YT_ENCODING
UnknownFormat(r) == r.itag # "" /\ IntOf[r.itag] \notin DOMAIN YT_ENCODING

\* the positions of the records the videos list was built from
VideoPositions == [j \in 1..Len(videos) |->
                      CHOOSE n \in 1..Len(UrlBase) : UrlBase[n] = videos[j].url[1]]

\* C1: a stream whose format identifier is not in YT_ENCODING is left out of
\* the videos list and does not make the resolution fail: on a page whose
\* urls are all signed, from_url completes and videos holds exactly the
\* streams with a known identifier.
C1_UnknownFormatSkipped ==
    (/\ Resolved
     /\ _video_url.body = GoodBody
     /\ Streams # <<>>
     /\ \A n \in 1..Len(Streams) : Streams[n].signed
     /\ \E n \in 1..Len(Streams) : UnknownFormat(Streams[n]))
    => /\ raised = "none"
       /\ {VideoPositions[j] : j \in 1..Len(videos)}
            = {n \in 1..Len(Streams) : KnownFormat(Streams[n])}

\* C3: the scrambled signature the resolver reads for the stream at position
\* i of the url sequence exists and is the s value of the record that
\* supplied url[i].
C3_SignatureOfSameRecord ==
    \A j \in 1..Len(calls) :
        /\ calls[j].read
        /\ ~Streams[calls[j].pos].signed
        /\ calls[j].s = Scrambled[calls[j].pos]

\* C4: the script body _get_cipher works on is the body served at the
\* player-script url of the page being resolved.
C4_ScriptOfCurrentPage ==
    \A j \in 1..Len(calls) :
        calls[j].read =>
            /\ calls[j].url = JsUrl(_video_url.config.js)
            /\ calls[j].code = urlopen(calls[j].url)

\* the dispatch expression ".sig||NAME(" occurs in code with this NAME
Dispatches(code, name) ==
    \E k \in 1..(Len(code) - 2) :
        code[k] = ".sig||" /\ code[k + 1] = name /\ code[k + 2] = "("

\* C7: every _get_cipher call either returns a signature or raises
\* CipherError, which ends from_url; a call on a script without the dispatch
\* expression raises CipherError, and a signature is only ever computed with
\* the function name found at the dispatch expression of the script in use.
C7_CipherErrorOnAnyFailure ==
    \A j \in 1..Len(calls) :
        calls[j].read =>
            /\ calls[j].raised \in {"none", "CipherError"}
            /\ calls[j].raised = "CipherError" => (raised = "CipherError" /\ j = Len(calls))
            /\ (\A name \in Names : ~Dispatches(calls[j].code, name))
                  => calls[j].raised = "CipherError"
            /\ calls[j].raised = "none" => Dispatches(calls[j].code, calls[j].funcname)

\* a later from_url of an instance that already resolved streams hit a script
\* without the dispatch expression
C7_Witness ==
    /\ _fmt_values # <<>>
    /\ calls # <<>>
    /\ calls[Len(calls)].read
    /\ \A name \in Names : ~Dispatches(calls[Len(calls)].code, name)
    /\ raised = "CipherError"

FailedAt ==
    IF raised \in {"CipherError", "IndexError"} THEN calls[Len(calls)].pos
    ELSE IF raised = "TypeError"
         THEN CHOOSE n \in 1..Len(Streams) :
                  /\ UnknownFormat(Streams[n])
                  /\ \A m \in 1..(n - 1) : ~UnknownFormat(Streams[m])
    ELSE 0

Given(x) == x # "None"

\* v satisfies every given filter of args = <<extension, resolution, profile>>
MatchesAll(v, args) ==
    /\ Given(args[1]) => v.extension = args[1]
    /\ Given(args[2]) => v.resolution = args[2]
    /\ Given(args[3]) => v.profile = args[3]

Matching(vs, args) == {j \in 1..Len(vs) : MatchesAll(vs[j], args)}

\* C8: get returns nothing (and raises nothing) when no stream satisfies all
\* given filters, returns the stream when exactly one does, raises
\* MultipleObjectsReturned when several do, and leaves the stream list as it was.
C8_GetZeroOneMany ==
    [][(ret'.op = "get" /\ ret'.raised # "AttributeError") =>
          LET m == Matching(videos, ret'.args)
          IN  /\ videos' = videos
              /\ m = {} => (ret'.raised = "none" /\ ret'.kind = "None" /\ ret'.val = <<>>)
              /\ Cardinality(m) = 1 =>
                    /\ ret'.raised = "none"
                    /\ ret'.kind = "video"
                    /\ ret'.val = <<videos[CHOOSE j \in m : TRUE]>>
              /\ Cardinality(m) >= 2 => ret'.raised = "MultipleObjectsReturned"
      ]_vars

\* get was called with a filter on a list of two streams that both satisfy it
C8_Witness ==
    /\ ret.op = "get"
    /\ Len(videos) = 2
    /\ Given(ret.args[1])
    /\ Cardinality(Matching(videos, ret.args)) = 2
    /\ ret.raised = "MultipleObjectsReturned"

\* C9: filter returns exactly the streams that satisfy every given filter, in
\* the order of the stream list, each once.
C9_FilterExactMatches ==
    (ret.op = "filter" /\ ret.raised # "AttributeError") =>
        LET m == Matching(videos, ret.args)
        IN  /\ ret.raised = "none"
            /\ ret.kind = "list"
            /\ Len(ret.val) = Cardinality(m)
            /\ \A k \in 1..Len(ret.val) :
                  ret.val[k] = videos[CHOOSE j \in m : Cardinality({h \in m : h < j}) = k - 1]

\* filter with a profile kept one of two streams
C9_Witness ==
    /\ ret.op = "filter"
    /\ Len(videos) = 2
    /\ Given(ret.args[3])
    /\ Len(ret.val) = 1

====
